---------------------------- MODULE Spec2Model ----------------------------
(***************************************************************************)
(* The dynamic array of src/darray.c: struct darray, the allocator record  *)
(* of src/common.h, the heap the allocator functions manage, and one       *)
(* action per public function of src/darray.h.                             *)
(*                                                                         *)
(* Every function is an operator from a machine state                      *)
(*     [arr, heap, mem, ret, out, fault, inits, sets]                      *)
(* to the machine state it returns in, so that a function that calls       *)
(* another (darray_append, darray_set_allocator, darray_init_w_allocator)  *)
(* is the composition the code writes.  The outcome of each call into the  *)
(* allocator (no memory, a new block, the same block) is a parameter the   *)
(* actions choose with \E.                                                 *)
(***************************************************************************)
EXTENDS Integers, Sequences, FiniteSets

(***************************************************************************)
(* Bounds of the model.                                                    *)
(***************************************************************************)
MaxCalls == 3        \* calls made on the array in one run of Spec
MaxAppends == 11     \* calls made in one run of SpecAppend
MaxBlocks == 3       \* blocks the heap can hand out in one run

(***************************************************************************)
(* Program constants.                                                      *)
(***************************************************************************)
DEFAULT_CAPACITY == 8
DEFAULT_EXPANSION_FACTOR == 2

OK == 0
ERR_ALLOC == 1
ERR_NULL_POINTER == 2
ERR_INVALID_ACCESS_OF_INDEX == 3
ERR_INDEX_LARGER_THAN_CAPACITY == 4
ERR_REACHED_MAX_CAPACITY == 5
ERR_NULL_FUNCTION_POINTER == 6
ITER_END == 7

NULL == 0            \* the null pointer, as a block, a function or a handle
Indeterminate == -1  \* content of a slot nothing has written since malloc
NoReturn == -2       \* "status" of a call that never returned (the process died)

DEFAULT_FAMILY == 1  \* malloc / calloc / realloc / free of the C library
CUSTOM_FAMILY == 2   \* a caller-supplied family of allocation functions

\* the element handles callers store
Values == {1, 2}
Blocks == 1..MaxBlocks
Families == {DEFAULT_FAMILY, CUSTOM_FAMILY}

(***************************************************************************)
(* struct allocator: four function references; each is NULL or the family  *)
(* the function belongs to.                                                *)
(***************************************************************************)
Allocator(a, c, r, f) ==
    [mem_alloc_f |-> a, mem_calloc_f |-> c, mem_realloc_f |-> r, mem_free_f |-> f]

DefaultAllocator ==
    Allocator(DEFAULT_FAMILY, DEFAULT_FAMILY, DEFAULT_FAMILY, DEFAULT_FAMILY)

NullAllocator == Allocator(NULL, NULL, NULL, NULL)

\* the allocator records callers pass in: a complete custom family, the
\* default family again, and custom records with one reference absent
AllocatorArgs ==
    { Allocator(CUSTOM_FAMILY, CUSTOM_FAMILY, CUSTOM_FAMILY, CUSTOM_FAMILY),
      DefaultAllocator,
      Allocator(NULL, CUSTOM_FAMILY, CUSTOM_FAMILY, CUSTOM_FAMILY),
      Allocator(CUSTOM_FAMILY, CUSTOM_FAMILY, CUSTOM_FAMILY, NULL),
      Allocator(CUSTOM_FAMILY, CUSTOM_FAMILY, NULL, CUSTOM_FAMILY) }

(***************************************************************************)
(* The heap.  A block is unused (never handed out), live, or freed; owner  *)
(* is the family whose function handed it out and freer the family whose   *)
(* function released it.  Blocks are never handed out twice.               *)
(***************************************************************************)
UnusedBlock == [st |-> "unused", owner |-> NULL, freer |-> NULL]

EmptyHeap == [b \in Blocks |-> UnusedBlock]

FreshBlock(heap) ==
    IF \E b \in Blocks : heap[b].st = "unused"
    THEN CHOOSE b \in Blocks :
            /\ heap[b].st = "unused"
            /\ \A c \in Blocks : heap[c].st = "unused" => b <= c
    ELSE NULL

LiveBlocks(heap) == {b \in Blocks : heap[b].st = "live"}

IsLive(heap, p) == p # NULL /\ heap[p].st = "live"

IsFreed(heap, p) == p # NULL /\ heap[p].st = "freed"

\* n slots of freshly allocated memory
Fresh(n) == [i \in 1..n |-> Indeterminate]

\* what a released block holds afterwards: the allocator may leave the old
\* bytes or overwrite them with its own bookkeeping
Released(data, keep) == IF keep THEN data ELSE Fresh(Len(data))

\* the first n slots of src, laid over dst (memcpy of n slots)
Memcpy(dst, src, n) ==
    [i \in 1..Len(dst) |-> IF i <= n /\ i <= Len(src) THEN src[i] ELSE dst[i]]

Min(x, y) == IF x < y THEN x ELSE y

(***************************************************************************)
(* mem_alloc_f(size): "ok" hands out a fresh block when the heap has one   *)
(* left; anything else returns NULL.                                       *)
(***************************************************************************)
MallocOutcomes == {"ok", "null"}

Malloc(heap, family, outcome) ==
    LET b == FreshBlock(heap) IN
    IF outcome = "ok" /\ b # NULL
    THEN [heap |-> [heap EXCEPT ![b] = [st |-> "live", owner |-> family, freer |-> NULL]],
          ptr |-> b]
    ELSE [heap |-> heap, ptr |-> NULL]

(***************************************************************************)
(* mem_free_f(ptr): free(NULL) does nothing.                               *)
(***************************************************************************)
Free(heap, family, p) ==
    IF p = NULL THEN heap
    ELSE [heap EXCEPT ![p] = [st |-> "freed", owner |-> heap[p].owner, freer |-> family]]

(***************************************************************************)
(* mem_realloc_f(ptr, size) on a NULL or live ptr:                         *)
(*   "null"     no memory, ptr untouched                                   *)
(*   "inplace"  the same block, resized                                    *)
(*   "moved"    a new block holding the old content, ptr freed             *)
(*   "released" size 0 only: ptr freed and NULL returned                   *)
(* realloc(NULL, size) is malloc(size).                                    *)
(***************************************************************************)
ReallocOutcomes == {"null", "inplace", "moved", "released"}

Realloc(heap, family, p, size, outcome) ==
    LET b == FreshBlock(heap) IN
    IF p = NULL
    THEN Malloc(heap, family, IF outcome \in {"inplace", "moved"} THEN "ok" ELSE "null")
    ELSE IF outcome = "inplace"
    THEN [heap |-> heap, ptr |-> p]
    ELSE IF outcome = "moved" /\ b # NULL
    THEN [heap |-> [heap EXCEPT ![b] = [st |-> "live", owner |-> family, freer |-> NULL],
                                ![p] = [st |-> "freed", owner |-> heap[p].owner,
                                        freer |-> family]],
          ptr |-> b]
    ELSE IF outcome = "released" /\ size = 0
    THEN [heap |-> Free(heap, family, p), ptr |-> NULL]
    ELSE [heap |-> heap, ptr |-> NULL]


(***************************************************************************)
(* Machine states.  ret is the status the running function returns, out    *)
(* the handle it hands back, fault the memory fault it committed.  A fault *)
(* of CrashFaults ends the process inside the call (ret = NoReturn).       *)
(* inits and sets count the times darray_init and darray_set_allocator     *)
(* were entered since the caller's call began.                             *)
(***************************************************************************)
CrashFaults == {"null_call", "null_deref", "double_free"}

Faults == CrashFaults \cup {"none", "use_after_free"}

Return(s, stat) == [s EXCEPT !.ret = stat]

Crash(s, f) == [s EXCEPT !.ret = NoReturn, !.fault = f]

Note(s, f) == [s EXCEPT !.fault = f]

(***************************************************************************)
(* MAX(x, y) of darray.c:9, on status codes                                *)
(***************************************************************************)
MAX(x, y) == IF x > y THEN x ELSE y

(***************************************************************************)
(* darray_init                                                             *)
(***************************************************************************)
darray_init(s0, present) ==
    LET s == [s0 EXCEPT !.inits = @ + 1] IN
    IF ~present THEN Return(s, ERR_NULL_POINTER)
    ELSE [s EXCEPT !.arr = [len |-> 0,
                            capacity |-> DEFAULT_CAPACITY,
                            buffer |-> NULL,
                            cmp_f |-> NULL,
                            allocator |-> DefaultAllocator],
                   !.mem = << >>,
                   !.ret = OK]

(***************************************************************************)
(* darray_set_cmp_f                                                        *)
(***************************************************************************)
darray_set_cmp_f(s, present, cmp_f) ==
    IF ~present THEN Return(s, ERR_NULL_POINTER)
    ELSE [s EXCEPT !.arr.cmp_f = cmp_f, !.ret = OK]

\* arr->allocator.mem_free_f(arr->buffer): the old buffer goes back through
\* the free function of the allocator record the array still holds
MvReleaseOld_new(s, allocator, heap) == Free(heap, allocator.mem_free_f, s.arr.buffer)

MvReleaseOld(s, allocator, heap) == Free(heap, s.arr.allocator.mem_free_f, s.arr.buffer)

(***************************************************************************)
(* _mv_data: the migration of the buffer to a new allocator.  o1 and o2    *)
(* are the outcomes of its two calls of allocator.mem_alloc_f.             *)
(***************************************************************************)
mv_data(s, allocator, o1, o2) ==
    IF allocator.mem_alloc_f = NULL \/ allocator.mem_free_f = NULL
    THEN Return(s, ERR_NULL_FUNCTION_POINTER)
    ELSE
    LET cap == s.arr.capacity
        old == s.arr.buffer
        a1  == Malloc(s.heap, allocator.mem_alloc_f, o1)
    IN
    IF a1.ptr = NULL THEN Return(s, ERR_ALLOC)
    ELSE
    LET \* memcpy(buffer_cpy, arr->buffer, capacity slots)
        buffer_cpy == Memcpy(Fresh(cap), s.mem, cap)
        s1 == IF IsFreed(s.heap, old) /\ cap > 0 THEN Note(s, "use_after_free") ELSE s
    IN
    \* arr->allocator.mem_free_f(arr->buffer)
    IF s.arr.allocator.mem_free_f = NULL THEN Crash(s1, "null_call")
    ELSE IF IsFreed(s.heap, old) THEN Crash(s1, "double_free")
    ELSE
    LET h2 == MvReleaseOld(s, allocator, a1.heap)
        a2 == Malloc(h2, allocator.mem_alloc_f, o2)
    IN
    IF a2.ptr = NULL
    THEN \* arr->buffer is NULL now; allocator.mem_free_f(NULL) does nothing
         [s1 EXCEPT !.arr.buffer = NULL, !.heap = a2.heap, !.mem = << >>,
                    !.ret = ERR_ALLOC]
    ELSE [s1 EXCEPT !.arr.buffer = a2.ptr,
                    !.heap = Free(a2.heap, allocator.mem_free_f, a1.ptr),
                    !.mem = Memcpy(Fresh(cap), buffer_cpy, cap),
                    !.ret = OK]

(***************************************************************************)
(* darray_set_allocator                                                    *)
(***************************************************************************)
\* if (arr->buffer != NULL): only an array that has a buffer is migrated
NeedsMigration_never(s) == FALSE

NeedsMigration_always(s) == TRUE

NeedsMigration(s) == s.arr.buffer # NULL

darray_set_allocator(s0, present, allocator, o1, o2) ==
    LET s == [s0 EXCEPT !.sets = @ + 1] IN
    IF ~present THEN Return(s, ERR_NULL_POINTER)
    ELSE IF NeedsMigration(s)
    THEN LET m == mv_data(s, allocator, o1, o2) IN
         IF m.ret # OK THEN m
         ELSE [m EXCEPT !.arr.allocator = allocator, !.ret = OK]
    ELSE [s EXCEPT !.arr.allocator = allocator, !.ret = OK]

(***************************************************************************)
(* darray_init_w_allocator: MAX is a macro, so the argument that is the    *)
(* larger is evaluated a second time, and the order in which the two       *)
(* arguments are first evaluated is the compiler's choice.                 *)
(***************************************************************************)
darray_init_w_allocator(s, present, allocator, initFirst, o1, o2) ==
    IF ~present THEN Return(s, ERR_NULL_POINTER)
    ELSE
    LET x1 == IF initFirst THEN darray_init(s, present)
              ELSE darray_set_allocator(s, present, allocator, o1, o2)
        x2 == IF initFirst THEN darray_set_allocator(x1, present, allocator, o1, o2)
              ELSE darray_init(x1, present)
        sx == IF initFirst THEN x1.ret ELSE x2.ret     \* darray_init(arr)
        sy == IF initFirst THEN x2.ret ELSE x1.ret     \* darray_set_allocator(arr, a)
    IN
    IF x1.ret = NoReturn THEN x1
    ELSE IF x2.ret = NoReturn THEN x2
    ELSE IF sx > sy THEN darray_init(x2, present)
    ELSE darray_set_allocator(x2, present, allocator, o1, o2)

(***************************************************************************)
(* darray_resize.  o is the outcome of mem_realloc_f; keep tells whether   *)
(* a block the call releases still holds its old content afterwards.       *)
(* The memcpy after realloc reads arr->buffer, the pointer realloc was     *)
(* given: NULL before the first allocation, the released block when        *)
(* realloc moved the data, and the new block itself (a copy onto itself,   *)
(* which changes nothing) when realloc resized in place.                   *)
(***************************************************************************)
darray_resize(s, present, new_capacity, o, keep) ==
    IF ~present THEN Return(s, ERR_NULL_POINTER)
    ELSE IF s.arr.allocator.mem_realloc_f = NULL
    THEN Return(s, ERR_NULL_FUNCTION_POINTER)
    ELSE IF IsFreed(s.heap, s.arr.buffer) THEN Crash(s, "double_free")
    ELSE
    LET old == s.arr.buffer
        r   == Realloc(s.heap, s.arr.allocator.mem_realloc_f, old, new_capacity, o)
        n   == Min(s.arr.capacity, new_capacity)
        gone == old # NULL /\ r.heap[old].st = "freed"
        \* what the new block holds when realloc returns
        moved == Memcpy(Fresh(new_capacity), s.mem, new_capacity)
    IN
    IF r.ptr = NULL
    THEN [s EXCEPT !.heap = r.heap,
                   !.mem = IF gone THEN Released(s.mem, keep) ELSE s.mem,
                   !.ret = ERR_ALLOC]
    \* memcpy(new_buffer, arr->buffer, n slots)
    ELSE IF old = NULL /\ n > 0 THEN Crash(s, "null_deref")
    ELSE
    [s EXCEPT !.arr.buffer = r.ptr,
              !.arr.capacity = new_capacity,
              !.heap = r.heap,
              !.mem = IF gone THEN Memcpy(moved, Released(s.mem, keep), n) ELSE moved,
              !.fault = IF gone /\ n > 0 THEN "use_after_free" ELSE s.fault,
              !.ret = OK]

\* if (index >= arr->capacity) return ERR_INDEX_LARGER_THAN_CAPACITY
InsertOutOfCapacity_gt(s, index) == index > s.arr.capacity

InsertOutOfCapacity(s, index) == index >= s.arr.capacity

\* if (index >= arr->len) arr->len = index + 1
InsertLen_always(s, index) == index + 1

InsertLen(s, index) == IF index >= s.arr.len THEN index + 1 ELSE s.arr.len

(***************************************************************************)
(* darray_insert.  o is the outcome of mem_alloc_f when the buffer is      *)
(* allocated by this call.                                                 *)
(***************************************************************************)
darray_insert(s, present, index, data, o) ==
    IF ~present THEN Return(s, ERR_NULL_POINTER)
    ELSE IF InsertOutOfCapacity(s, index) THEN Return(s, ERR_INDEX_LARGER_THAN_CAPACITY)
    ELSE IF s.arr.buffer = NULL /\ s.arr.allocator.mem_alloc_f = NULL
    THEN Return(s, ERR_NULL_FUNCTION_POINTER)
    ELSE
    LET a == IF s.arr.buffer = NULL
             THEN Malloc(s.heap, s.arr.allocator.mem_alloc_f, o)
             ELSE [heap |-> s.heap, ptr |-> s.arr.buffer]
        m == IF s.arr.buffer = NULL THEN Fresh(s.arr.capacity) ELSE s.mem
    IN
    IF a.ptr = NULL THEN Return(s, ERR_ALLOC)
    ELSE
    [s EXCEPT !.arr.buffer = a.ptr,
              !.arr.len = InsertLen(s, index),
              !.heap = a.heap,
              !.mem = [m EXCEPT ![index + 1] = data],
              !.fault = IF IsFreed(a.heap, a.ptr) THEN "use_after_free" ELSE s.fault,
              !.ret = OK]

(***************************************************************************)
(* darray_append.  A call reaches the allocator at most once (realloc in   *)
(* darray_resize, or malloc in darray_insert while there is no buffer); o  *)
(* is the outcome of that one call.                                        *)
(***************************************************************************)
\* arr->capacity + DEFAULT_EXPANSION_FACTOR: the capacity an append asks
\* darray_resize for when the array is full
AppendNewCapacity_double(s) == s.arr.capacity * DEFAULT_EXPANSION_FACTOR

AppendNewCapacity(s) == s.arr.capacity + DEFAULT_EXPANSION_FACTOR

darray_append(s, present, data, o, keep) ==
    IF ~present THEN Return(s, ERR_NULL_POINTER)
    ELSE IF s.arr.len >= s.arr.capacity
    THEN LET r == darray_resize(s, present, AppendNewCapacity(s), o, keep)
         IN IF r.ret # OK THEN r
            ELSE darray_insert(r, present, r.arr.len, data, "ok")
    ELSE darray_insert(s, present, s.arr.len, data, IF o = "null" THEN "null" ELSE "ok")

(***************************************************************************)
(* darray_at_dst and darray_at_ret                                         *)
(***************************************************************************)
\* if (index >= arr->capacity) return ERR_INDEX_LARGER_THAN_CAPACITY
AtOutOfCapacity_len(s, index) == index >= s.arr.len

AtOutOfCapacity(s, index) == index >= s.arr.capacity

darray_at_dst(s, present, index) ==
    IF ~present THEN Return(s, ERR_NULL_POINTER)
    ELSE IF AtOutOfCapacity(s, index) THEN Return(s, ERR_INDEX_LARGER_THAN_CAPACITY)
    ELSE IF s.arr.buffer = NULL THEN Crash(s, "null_deref")
    ELSE [s EXCEPT !.out = s.mem[index + 1],
                   !.fault = IF IsFreed(s.heap, s.arr.buffer) THEN "use_after_free"
                             ELSE s.fault,
                   !.ret = OK]

darray_at_ret(s, present, index) ==
    LET r == darray_at_dst(s, present, index) IN
    IF r.ret = NoReturn THEN r
    ELSE IF r.ret # OK THEN [r EXCEPT !.out = NULL]
    ELSE r

(***************************************************************************)
(* darray_free                                                             *)
(***************************************************************************)
darray_free(s, present, keep) ==
    IF ~present THEN Return(s, ERR_NULL_POINTER)
    ELSE IF s.arr.allocator.mem_free_f = NULL THEN Return(s, ERR_NULL_FUNCTION_POINTER)
    ELSE IF IsFreed(s.heap, s.arr.buffer) THEN Crash(s, "double_free")
    ELSE [s EXCEPT !.arr.len = 0,
                   !.arr.capacity = 0,
                   !.arr.cmp_f = NULL,
                   !.arr.allocator = NullAllocator,
                   !.heap = Free(s.heap, s.arr.allocator.mem_free_f, s.arr.buffer),
                   !.mem = Released(s.mem, keep),
                   !.ret = OK]


(***************************************************************************)
(* State.                                                                  *)
(*   arr    struct darray: len, capacity, buffer (a block or NULL), cmp_f, *)
(*          allocator                                                      *)
(*   heap   the blocks the allocator functions have handed out             *)
(*   mem    the slots stored at the address arr.buffer                     *)
(*   call   the last call made: function, arguments, returned status,      *)
(*          returned handle and memory fault                               *)
(*   nops   number of calls made                                           *)
(*   log    the handles the successful darray_append calls since the last  *)
(*          darray_init were given, in order                               *)
(***************************************************************************)
VARIABLES arr, heap, mem, call, nops, log

vars == <<arr, heap, mem, call, nops, log>>

\* arguments the callers pass
IndexArgs == {0, DEFAULT_CAPACITY - 1, DEFAULT_CAPACITY}

ResizeArgs == {0, 4, DEFAULT_CAPACITY + DEFAULT_EXPANSION_FACTOR}

CmpArgs == {NULL, 1}

Machine == [arr |-> arr, heap |-> heap, mem |-> mem,
            ret |-> OK, out |-> NULL, fault |-> "none", inits |-> 0, sets |-> 0]

Call(op, present, index, data, new_capacity, allocator, r) ==
    [op |-> op, present |-> present, index |-> index, data |-> data,
     new_capacity |-> new_capacity, allocator |-> allocator,
     ret |-> r.ret, out |-> r.out, fault |-> r.fault,
     inits |-> r.inits, sets |-> r.sets]

\* the process is alive: the last call returned
Running == call.fault \notin CrashFaults

Step(r, c) ==
    /\ arr' = r.arr
    /\ heap' = r.heap
    /\ mem' = r.mem
    /\ call' = c
    /\ nops' = nops + 1

Init ==
    /\ arr = darray_init([arr |-> [len |-> 0, capacity |-> 0, buffer |-> NULL,
                                   cmp_f |-> NULL, allocator |-> NullAllocator],
                          mem |-> << >>, ret |-> OK, inits |-> 0], TRUE).arr
    /\ heap = EmptyHeap
    /\ mem = << >>
    /\ call = [op |-> "darray_init", present |-> TRUE, index |-> 0, data |-> NULL,
               new_capacity |-> 0, allocator |-> NullAllocator,
               ret |-> OK, out |-> NULL, fault |-> "none", inits |-> 1, sets |-> 0]
    /\ nops = 0
    /\ log = << >>

\* a call given no array returns before it looks at its other arguments:
\* one representative of each is enough
Given(present, S) == IF present THEN S ELSE {CHOOSE x \in S : TRUE}

\* the second allocation of a migration happens only after the first succeeded
After(o1) == IF o1 = "ok" THEN MallocOutcomes ELSE {"null"}

InitCall ==
    /\ Running /\ nops < MaxCalls
    /\ \E present \in BOOLEAN :
         LET r == darray_init(Machine, present) IN
         /\ Step(r, Call("darray_init", present, 0, NULL, 0, NullAllocator, r))
         /\ log' = IF r.ret = OK THEN << >> ELSE log

InitWAllocator ==
    /\ Running /\ nops < MaxCalls
    /\ \E present \in BOOLEAN :
       \E a \in Given(present, AllocatorArgs), initFirst \in Given(present, BOOLEAN),
          o1 \in Given(present, MallocOutcomes) :
       \E o2 \in After(o1) :
         LET r == darray_init_w_allocator(Machine, present, a, initFirst, o1, o2) IN
         /\ Step(r, Call("darray_init_w_allocator", present, 0, NULL, 0, a, r))
         /\ log' = IF present /\ r.ret # NoReturn THEN << >> ELSE log

SetCmpF ==
    /\ Running /\ nops < MaxCalls
    /\ \E present \in BOOLEAN :
       \E f \in Given(present, CmpArgs) :
         LET r == darray_set_cmp_f(Machine, present, f) IN
         /\ Step(r, Call("darray_set_cmp_f", present, 0, f, 0, NullAllocator, r))
         /\ log' = log

SetAllocator ==
    /\ Running /\ nops < MaxCalls
    /\ \E present \in BOOLEAN :
       \E a \in Given(present, AllocatorArgs), o1 \in Given(present, MallocOutcomes) :
       \E o2 \in After(o1) :
         LET r == darray_set_allocator(Machine, present, a, o1, o2) IN
         /\ Step(r, Call("darray_set_allocator", present, 0, NULL, 0, a, r))
         /\ log' = log

Resize ==
    /\ Running /\ nops < MaxCalls
    /\ \E present \in BOOLEAN :
       \E c \in Given(present, ResizeArgs), o \in Given(present, ReallocOutcomes),
          keep \in Given(present, BOOLEAN) :
         LET r == darray_resize(Machine, present, c, o, keep) IN
         /\ Step(r, Call("darray_resize", present, 0, NULL, c, NullAllocator, r))
         /\ log' = log

Insert ==
    /\ Running /\ nops < MaxCalls
    /\ \E present \in BOOLEAN :
       \E i \in Given(present, IndexArgs), v \in Given(present, Values),
          o \in Given(present, MallocOutcomes) :
         LET r == darray_insert(Machine, present, i, v, o) IN
         /\ Step(r, Call("darray_insert", present, i, v, 0, NullAllocator, r))
         /\ log' = log

DoAppend(present, v, o, keep) ==
    LET r == darray_append(Machine, present, v, o, keep) IN
    /\ Step(r, Call("darray_append", present, 0, v, 0, NullAllocator, r))
    /\ log' = IF r.ret = OK THEN Append(log, v) ELSE log

AppendCall ==
    /\ Running /\ nops < MaxCalls
    /\ \E present \in BOOLEAN :
       \E v \in Given(present, Values), o \in Given(present, ReallocOutcomes),
          keep \in Given(present, BOOLEAN) :
         DoAppend(present, v, o, keep)

AtDst ==
    /\ Running /\ nops < MaxCalls
    /\ \E present \in BOOLEAN :
       \E i \in Given(present, IndexArgs) :
         LET r == darray_at_dst(Machine, present, i) IN
         /\ Step(r, Call("darray_at_dst", present, i, NULL, 0, NullAllocator, r))
         /\ log' = log

AtRet ==
    /\ Running /\ nops < MaxCalls
    /\ \E present \in BOOLEAN :
       \E i \in Given(present, IndexArgs) :
         LET r == darray_at_ret(Machine, present, i) IN
         /\ Step(r, Call("darray_at_ret", present, i, NULL, 0, NullAllocator, r))
         /\ log' = log

FreeCall ==
    /\ Running /\ nops < MaxCalls
    /\ \E present \in BOOLEAN :
       \E keep \in Given(present, BOOLEAN) :
         LET r == darray_free(Machine, present, keep) IN
         /\ Step(r, Call("darray_free", present, 0, NULL, 0, NullAllocator, r))
         /\ log' = log

Next ==
    \/ InitCall
    \/ InitWAllocator
    \/ SetCmpF
    \/ SetAllocator
    \/ Resize
    \/ Insert
    \/ AppendCall
    \/ AtDst
    \/ AtRet
    \/ FreeCall

Spec == Init /\ [][Next]_vars

(***************************************************************************)
(* SpecAppend: a run of darray_append calls on an array fresh from         *)
(* darray_init, long enough to pass the default capacity.                  *)
(***************************************************************************)
AppendRun ==
    /\ Running /\ nops < MaxAppends
    /\ \E v \in Values, o \in ReallocOutcomes, keep \in BOOLEAN :
         DoAppend(TRUE, v, o, keep)

NextAppend == AppendRun

SpecAppend == Init /\ [][NextAppend]_vars

(***************************************************************************)
(* The operations a caller makes on an array it has initialised.           *)
(***************************************************************************)
MutatingOps == {"darray_insert", "darray_append", "darray_resize",
                "darray_set_allocator", "darray_free"}

AccessOps == MutatingOps \cup {"darray_at_dst", "darray_at_ret"}

\* at(i), the by-value read of slot i in the current state
At(i) == darray_at_ret(Machine, TRUE, i).out

(***************************************************************************)
(* C1: after n darray_append calls from darray_init that all returned OK,  *)
(* len is n and at(i) is the i-th appended handle for every i < n.         *)
(***************************************************************************)
C1_AppendsReadBack ==
    nops = Len(log) =>
        /\ arr.len = Len(log)
        /\ \A i \in 0..(Len(log) - 1) : At(i) = log[i + 1]

(***************************************************************************)
(* C2: len <= capacity in every reachable state.                           *)
(***************************************************************************)
C2_LenWithinCapacity == arr.len <= arr.capacity

(***************************************************************************)
(* C3: capacity is 0 whenever the buffer is absent and positive whenever   *)
(* the buffer is present.                                                  *)
(***************************************************************************)
C3_CapacityTracksBuffer ==
    /\ arr.buffer = NULL => arr.capacity = 0
    /\ arr.buffer # NULL => arr.capacity > 0

(***************************************************************************)
(* C4: a darray_set_allocator call on an array with a buffer in which an   *)
(* allocation through the new allocator returns no memory returns          *)
(* ERR_ALLOC and leaves the array as before: same struct, same buffer,     *)
(* still live, same contents.                                              *)
(***************************************************************************)
C4_FailedMigrationKeepsArray ==
    [][ ( /\ call'.op = "darray_set_allocator"
          /\ IsLive(heap, arr.buffer)
          /\ call'.ret = ERR_ALLOC )
        => ( /\ arr' = arr
             /\ IsLive(heap', arr'.buffer)
             /\ mem' = mem ) ]_vars

(***************************************************************************)
(* C5: a darray_set_allocator(a) call that returns OK on an array with a   *)
(* buffer leaves a buffer that a's mem_alloc_f handed out during the call, *)
(* holding the same capacity slots as before; len and capacity are         *)
(* unchanged, the old buffer was released by the old allocator's           *)
(* mem_free_f, and the allocator record is a.                              *)
(***************************************************************************)
C5_MigrationPreservesSlots ==
    [][ ( /\ call'.op = "darray_set_allocator"
          /\ arr.buffer # NULL
          /\ call'.ret = OK )
        => ( /\ heap[arr'.buffer].st = "unused"
             /\ IsLive(heap', arr'.buffer)
             /\ heap'[arr'.buffer].owner = call'.allocator.mem_alloc_f
             /\ Len(mem') = arr.capacity
             /\ \A i \in 1..arr.capacity : mem'[i] = mem[i]
             /\ arr'.len = arr.len
             /\ arr'.capacity = arr.capacity
             /\ heap'[arr.buffer].st = "freed"
             /\ heap'[arr.buffer].freer = arr.allocator.mem_free_f
             /\ arr'.allocator = call'.allocator ) ]_vars

\* a migration from the default to the custom family succeeded on a buffer
\* whose last slot holds a handle and whose first slot was never written
C5_Witness ==
    /\ call.op = "darray_set_allocator"
    /\ call.ret = OK
    /\ IsLive(heap, arr.buffer)
    /\ heap[arr.buffer].owner = CUSTOM_FAMILY
    /\ \E b \in Blocks : heap[b].st = "freed" /\ heap[b].freer = DEFAULT_FAMILY
    /\ arr.capacity = DEFAULT_CAPACITY
    /\ mem[arr.capacity] \in Values
    /\ mem[1] = Indeterminate

(***************************************************************************)
(* C6: when a darray_set_allocator call on an array whose buffer is the    *)
(* one live block returns, there is again exactly one live block and it is *)
(* the array's buffer.                                                     *)
(***************************************************************************)
C6_OneLiveBuffer ==
    [][ ( /\ call'.op = "darray_set_allocator"
          /\ call'.present
          /\ IsLive(heap, arr.buffer)
          /\ LiveBlocks(heap) = {arr.buffer}
          /\ call'.ret # NoReturn )
        => LiveBlocks(heap') = {arr'.buffer} ]_vars

(***************************************************************************)
(* C7: an insert, append, resize, set_allocator or free call that returns  *)
(* a status other than OK leaves len, capacity, the buffer and its         *)
(* contents, the comparator and the allocator record unchanged.            *)
(***************************************************************************)
C7_FailureLeavesState ==
    [][ ( /\ call'.op \in MutatingOps
          /\ call'.ret \notin {OK, NoReturn} )
        => ( /\ arr' = arr
             /\ mem' = mem
             /\ (arr.buffer # NULL => heap'[arr.buffer].st = heap[arr.buffer].st) ) ]_vars

(***************************************************************************)
(* C8: no at, insert, append, resize, set_allocator or free call reads or  *)
(* writes through an absent or released buffer or calls an absent          *)
(* allocator function.                                                     *)
(***************************************************************************)
C8_NoMemoryFault == call.op \in AccessOps => call.fault = "none"

(***************************************************************************)
(* C9: darray_insert with index >= capacity returns                        *)
(* ERR_INDEX_LARGER_THAN_CAPACITY and changes nothing: not the struct, not *)
(* the heap (no buffer is allocated), not a slot.                          *)
(***************************************************************************)
C9_InsertOutOfCapacity ==
    [][ ( /\ call'.op = "darray_insert"
          /\ call'.present
          /\ call'.index >= arr.capacity )
        => ( /\ call'.ret = ERR_INDEX_LARGER_THAN_CAPACITY
             /\ arr' = arr
             /\ heap' = heap
             /\ mem' = mem ) ]_vars

\* insert(capacity, v) was refused on an array that still has no buffer
C9_Witness ==
    /\ call.op = "darray_insert"
    /\ call.present
    /\ call.index = arr.capacity
    /\ arr.capacity = DEFAULT_CAPACITY
    /\ call.ret = ERR_INDEX_LARGER_THAN_CAPACITY
    /\ arr.buffer = NULL

(***************************************************************************)
(* C10: a darray_insert(index, v) call that returns OK had index <         *)
(* capacity, stores v in slot index, leaves every other slot (fresh ones   *)
(* when the call allocated the buffer) and capacity unchanged, and sets    *)
(* len to max(old len, index + 1).                                         *)
(***************************************************************************)
C10_InsertStores ==
    [][ ( /\ call'.op = "darray_insert"
          /\ call'.ret = OK )
        => ( /\ call'.index < arr.capacity
             /\ arr'.capacity = arr.capacity
             /\ Len(mem') = arr.capacity
             /\ mem'[call'.index + 1] = call'.data
             /\ \A i \in 1..arr.capacity :
                   i # call'.index + 1 =>
                       mem'[i] = IF arr.buffer = NULL THEN Indeterminate ELSE mem[i]
             /\ arr'.len = MAX(arr.len, call'.index + 1)
             /\ arr'.len >= arr.len ) ]_vars

\* insert(0, v) succeeded on an array whose len an earlier insert(7, x)
\* had set to 8: slot 0 holds v, slot 7 its handle, len is still 8
C10_Witness ==
    /\ call.op = "darray_insert"
    /\ call.ret = OK
    /\ call.index = 0
    /\ arr.capacity = DEFAULT_CAPACITY
    /\ arr.len = DEFAULT_CAPACITY
    /\ mem[1] = call.data
    /\ mem[DEFAULT_CAPACITY] \in Values

(***************************************************************************)
(* C11: a darray_resize(c) call that returns OK sets capacity to c, leaves *)
(* len unchanged, and at(i) afterwards is the handle slot i held before    *)
(* the call, for every i < min(old capacity, c).                           *)
(***************************************************************************)
C11_ResizePreservesPrefix ==
    [][ ( /\ call'.op = "darray_resize"
          /\ call'.ret = OK )
        => ( /\ arr'.capacity = call'.new_capacity
             /\ arr'.len = arr.len
             /\ \A i \in 1..Min(arr.capacity, call'.new_capacity) :
                   i <= Len(mem) => (i <= Len(mem') /\ mem'[i] = mem[i]) ) ]_vars

(***************************************************************************)
(* C12: a darray_free call that directly follows a successful darray_free  *)
(* returns ERR_NULL_FUNCTION_POINTER and leaves the heap alone, and no     *)
(* darray_free call of any run releases a buffer that was already          *)
(* released.                                                               *)
(***************************************************************************)
C12_NoSecondRelease ==
    [][ /\ ( /\ call.op = "darray_free" /\ call.ret = OK
             /\ call'.op = "darray_free" /\ call'.present )
           => ( call'.ret = ERR_NULL_FUNCTION_POINTER /\ heap' = heap )
        /\ call'.op = "darray_free" => call'.fault # "double_free" ]_vars

(***************************************************************************)
(* C13: a darray_free call that returns OK released the buffer, if any,    *)
(* through the mem_free_f of the allocator record it found, and leaves     *)
(* len 0, capacity 0, no buffer, no comparator and an allocator record of  *)
(* four absent references.                                                 *)
(***************************************************************************)
C13_TeardownResets ==
    [][ ( /\ call'.op = "darray_free"
          /\ call'.ret = OK )
        => ( /\ arr.buffer # NULL =>
                   /\ heap'[arr.buffer].st = "freed"
                   /\ heap'[arr.buffer].freer = arr.allocator.mem_free_f
             /\ arr'.len = 0
             /\ arr'.capacity = 0
             /\ arr'.buffer = NULL
             /\ arr'.cmp_f = NULL
             /\ arr'.allocator = NullAllocator ) ]_vars

(***************************************************************************)
(* C14: darray_set_allocator(a) with a.mem_alloc_f or a.mem_free_f absent  *)
(* returns ERR_NULL_FUNCTION_POINTER and keeps the array's allocator       *)
(* record, whether or not the array has a buffer.                          *)
(***************************************************************************)
C14_SetAllocatorRejectsNull ==
    [][ ( /\ call'.op = "darray_set_allocator"
          /\ call'.present
          /\ ( call'.allocator.mem_alloc_f = NULL \/ call'.allocator.mem_free_f = NULL ) )
        => ( /\ call'.ret = ERR_NULL_FUNCTION_POINTER
             /\ arr'.allocator = arr.allocator ) ]_vars

(***************************************************************************)
(* C15: a darray_init_w_allocator(a) call on an array enters darray_init   *)
(* once and darray_set_allocator once, returns the larger of their two     *)
(* statuses, and leaves the array as darray_init followed by               *)
(* darray_set_allocator(a) leaves it.                                      *)
(***************************************************************************)
C15_InitThenSetOnce ==
    [][ ( /\ call'.op = "darray_init_w_allocator"
          /\ call'.present
          /\ call'.ret # NoReturn )
        => LET i == darray_init(Machine, TRUE)
               e == darray_set_allocator(i, TRUE, call'.allocator, "ok", "ok")
           IN /\ call'.inits = 1
              /\ call'.sets = 1
              /\ call'.ret = MAX(i.ret, e.ret)
              /\ arr' = e.arr ]_vars

(***************************************************************************)
(* C16: darray_at_dst and darray_at_ret bound index by capacity, not len:  *)
(* with index >= capacity darray_at_dst returns                            *)
(* ERR_INDEX_LARGER_THAN_CAPACITY and darray_at_ret returns NULL; with     *)
(* index < capacity on an array with a buffer the call returns OK and the  *)
(* handle in slot index, also when index >= len.  The call changes neither *)
(* the struct, nor the heap, nor a slot.                                   *)
(***************************************************************************)
C16_AtBoundedByCapacity ==
    [][ ( /\ call'.op \in {"darray_at_dst", "darray_at_ret"}
          /\ call'.present )
        => ( /\ call'.index >= arr.capacity =>
                   /\ call'.op = "darray_at_dst" =>
                          call'.ret = ERR_INDEX_LARGER_THAN_CAPACITY
                   /\ call'.op = "darray_at_ret" => call'.out = NULL
             /\ (call'.index < arr.capacity /\ arr.buffer # NULL) =>
                   /\ call'.ret = OK
                   /\ call'.out = mem[call'.index + 1]
             /\ arr' = arr
             /\ heap' = heap
             /\ mem' = mem ) ]_vars

\* at(7, &dst) returned OK on a live buffer of 8 slots whose len is 1:
\* slot 0 holds a handle, slot 7 was read although it is beyond len
C16_Witness ==
    /\ call.op = "darray_at_dst"
    /\ call.ret = OK
    /\ call.index = DEFAULT_CAPACITY - 1
    /\ arr.capacity = DEFAULT_CAPACITY
    /\ arr.len = 1
    /\ IsLive(heap, arr.buffer)
    /\ mem[1] \in Values
    /\ call.out = mem[DEFAULT_CAPACITY]

\* ceil(x / 2) for x >= 0
HalfUp(x) == (x + 1) \div 2

\* the capacity after n successful appends on a fresh array
CapacityAfter(n) ==
    IF n <= DEFAULT_CAPACITY THEN DEFAULT_CAPACITY
    ELSE DEFAULT_CAPACITY + DEFAULT_EXPANSION_FACTOR * HalfUp(n - DEFAULT_CAPACITY)

(***************************************************************************)
(* C17: a darray_append(v) call changes capacity only when len >= capacity *)
(* held at the call, and then to capacity + 2; when it returns OK it has   *)
(* put v in slot len and raised len by one.  On an array fresh from        *)
(* darray_init, after n appends that all returned OK capacity is 8 for     *)
(* n <= 8 and 8 + 2 * ceil((n - 8) / 2) beyond; after three appends        *)
(* at(1) is the second handle, len is 3 and capacity is 8.                 *)
(***************************************************************************)
C17_AppendGrowsByTwo ==
    [][ call'.op = "darray_append" =>
          /\ call'.present =>
                \E o \in ReallocOutcomes, keep \in BOOLEAN, o2 \in MallocOutcomes :
                  LET g == IF arr.len >= arr.capacity
                           THEN darray_resize(Machine, TRUE,
                                              arr.capacity + DEFAULT_EXPANSION_FACTOR,
                                              o, keep)
                           ELSE Machine
                      r == IF g.ret # OK THEN g
                           ELSE darray_insert(g, TRUE, arr.len, call'.data, o2)
                  IN /\ arr' = r.arr /\ heap' = r.heap /\ mem' = r.mem
                     /\ call'.ret = r.ret
          /\ arr'.capacity # arr.capacity =>
                /\ arr.len >= arr.capacity
                /\ arr'.capacity = arr.capacity + DEFAULT_EXPANSION_FACTOR
          /\ (call'.ret = OK /\ arr.len >= arr.capacity) =>
                arr'.capacity = arr.capacity + DEFAULT_EXPANSION_FACTOR
          /\ call'.ret = OK =>
                /\ arr'.len = arr.len + 1
                /\ mem'[arr.len + 1] = call'.data
          /\ call'.ret = OK =>
                /\ arr'.capacity = CapacityAfter(Len(log'))
                /\ Len(log') = 3 =>
                      /\ darray_at_ret([Machine EXCEPT !.arr = arr', !.mem = mem',
                                                       !.heap = heap'], TRUE, 1).out
                            = log'[2]
                      /\ arr'.len = 3
                      /\ arr'.capacity = DEFAULT_CAPACITY ]_vars

\* eleven appends all returned OK: capacity went 8 -> 10 at the ninth and
\* 10 -> 12 at the eleventh
C17_Witness ==
    /\ call.op = "darray_append"
    /\ call.ret = OK
    /\ nops = 11
    /\ Len(log) = 11
    /\ arr.len = 11
    /\ arr.capacity = 12

(***************************************************************************)
(* C18: every block is freed or reallocated only through the allocator     *)
(* that produced it.  A released block was released by the family that     *)
(* owns it, and the block arr->buffer points at is owned by the family of  *)
(* the free and realloc functions of the record the array holds, which are *)
(* the only functions the array hands its buffer to.                       *)
(***************************************************************************)
C18_AllocatorPairing ==
    /\ \A b \in Blocks : heap[b].st = "freed" => heap[b].freer = heap[b].owner
    /\ arr.buffer # NULL =>
          \A f \in {arr.allocator.mem_realloc_f, arr.allocator.mem_free_f} :
             f # NULL => f = heap[arr.buffer].owner

\* teardown after a migration: the first buffer went back to the default
\* allocator, the migrated one to the custom allocator
C18_Witness ==
    /\ call.op = "darray_free"
    /\ call.ret = OK
    /\ arr.buffer # NULL
    /\ heap[arr.buffer] = [st |-> "freed", owner |-> CUSTOM_FAMILY, freer |-> CUSTOM_FAMILY]
    /\ \E b \in Blocks :
          heap[b] = [st |-> "freed", owner |-> DEFAULT_FAMILY, freer |-> DEFAULT_FAMILY]

(***************************************************************************)
(* C19: darray_init and darray_set_cmp_f never allocate, and               *)
(* darray_set_allocator does not allocate while the array has no buffer.   *)
(* The buffer comes into existence only through a darray_insert or         *)
(* darray_append that allocates or through a resize that succeeds (called  *)
(* directly or by a darray_append on a full array), as a fresh block of    *)
(* capacity slots; the call that makes the first buffer returns OK.  A     *)
(* darray_insert on a buffer-less array that returns                       *)
(* ERR_NULL_FUNCTION_POINTER or ERR_ALLOC leaves the array without a       *)
(* buffer and len unchanged.                                               *)
(***************************************************************************)
C19_LazyAllocation ==
    [][ /\ call'.op \in {"darray_init", "darray_set_cmp_f"} => heap' = heap
        /\ (call'.op = "darray_set_allocator" /\ arr.buffer = NULL) =>
              /\ heap' = heap
              /\ arr'.buffer = NULL
        /\ (arr.buffer = NULL /\ arr'.buffer # NULL) =>
              /\ call'.op \in {"darray_insert", "darray_append", "darray_resize"}
              /\ \/ call'.ret = OK
                 \/ /\ call'.op = "darray_append"
                    /\ arr.len >= arr.capacity
                    /\ arr'.capacity = arr.capacity + DEFAULT_EXPANSION_FACTOR
              /\ heap = EmptyHeap => call'.ret = OK
              /\ heap[arr'.buffer].st = "unused"
              /\ IsLive(heap', arr'.buffer)
              /\ Len(mem') = arr'.capacity
              /\ ( \/ call'.op = "darray_insert"
                   \/ call'.op = "darray_append" /\ arr.len < arr.capacity ) =>
                    arr'.capacity = arr.capacity
        /\ ( /\ call'.op = "darray_insert"
             /\ call'.present
             /\ arr.buffer = NULL
             /\ call'.ret \in {ERR_NULL_FUNCTION_POINTER, ERR_ALLOC} ) =>
              /\ arr'.buffer = NULL
              /\ arr'.len = arr.len
              /\ heap' = heap ]_vars

\* darray_set_allocator installed a record without an allocate function on
\* a buffer-less array, and the insert that followed failed
C19_Witness ==
    /\ call.op = "darray_insert"
    /\ call.ret = ERR_NULL_FUNCTION_POINTER
    /\ arr.allocator.mem_alloc_f = NULL
    /\ arr.allocator.mem_free_f = CUSTOM_FAMILY
    /\ arr.buffer = NULL
    /\ arr.len = 0
    /\ heap = EmptyHeap

=============================================================================
